---- MODULE Spec2Model ----
(***************************************************************************)
(* PersistentMemoryLogicLoop (src/.logicloops/PMLL.py): a dict of          *)
(* timestamped entries keyed by the sha256 digest of the caller's key,     *)
(* with expiry on read, oldest-first pruning on write and a JSON snapshot  *)
(* on disk.                                                                *)
(***************************************************************************)
EXTENDS Integers, Sequences, FiniteSets, TLC

\* ------------------------------------------------------------------ bounds
\* Clock readings are 0 .. MaxTime; the clock never runs backwards.
MaxTime == 2
\* max_memory_size is drawn from -1 .. MaxCapacity.
MaxCapacity == 2
\* memory_timeout is drawn from -1 .. MaxTtl.
MaxTtl == 1
\* A run makes at most MaxCalls calls of put, get, save and load.
MaxCalls == 4

\* ------------------------------------------------------------------ inputs
\* Caller keys.
Keys == {"a", "b", "c"}

\* Python values: None, the tuple (1,), the list [1].  Callers store None
\* and the tuple; the list is what json.load makes of an array.
PyNone == "None"
PyTuple == "tuple(1,)"
PyList == "list[1]"
Values == {PyNone, PyTuple}

Capacities == -1 .. MaxCapacity
Ttls == -1 .. MaxTtl

\* ------------------------------------------------------------- _hash_key
\* sha256(key.encode()).hexdigest(), first eight hex digits.
hash_key(key) ==
  CASE key = "a" -> "ca978112"
    [] key = "b" -> "3e23e816"
    [] key = "c" -> "2e7d2c03"

\* ------------------------------------------------------------------ dicts
\* self.memory is a Python dict: it keeps insertion order, an assignment to
\* a present key keeps the key's position, a new key goes last.  It is
\* held here as a sequence of items [k, timestamp, data] with distinct k.
\* After load_memory it is whatever JSON value the file held; "type" tells a
\* dict from a list.
EmptyDict == [type |-> "dict", items |-> <<>>]

\* len(d)
DictLen(d) == Len(d.items)

\* k in d  (for a list: membership among its elements; the list is empty)
DictHas(d, k) == \E i \in 1 .. Len(d.items) : d.items[i].k = k

\* d[k]
DictGet(d, k) ==
  LET i == CHOOSE j \in 1 .. Len(d.items) : d.items[j].k = k
  IN d.items[i]

\* Mutant of DictSet: an overwrite replaces the data and keeps the old
\* timestamp.
DictSet_keep_timestamp(d, k, ts, v) ==
  IF DictHas(d, k)
    THEN [d EXCEPT !.items =
            [i \in 1 .. Len(d.items) |->
               IF d.items[i].k = k
                 THEN [k |-> k, timestamp |-> d.items[i].timestamp, data |-> v]
                 ELSE d.items[i]]]
    ELSE [d EXCEPT !.items =
            Append(d.items, [k |-> k, timestamp |-> ts, data |-> v])]

\* Mutant of DictSet: an overwrite stamps the entry and keeps the data it
\* held.
DictSet_keep_data(d, k, ts, v) ==
  IF DictHas(d, k)
    THEN [d EXCEPT !.items =
            [i \in 1 .. Len(d.items) |->
               IF d.items[i].k = k
                 THEN [k |-> k, timestamp |-> ts, data |-> d.items[i].data]
                 ELSE d.items[i]]]
    ELSE [d EXCEPT !.items =
            Append(d.items, [k |-> k, timestamp |-> ts, data |-> v])]

\* d[k] = {"timestamp": ts, "data": v}
DictSet(d, k, ts, v) ==
  LET e == [k |-> k, timestamp |-> ts, data |-> v]
  IN IF DictHas(d, k)
       THEN [d EXCEPT !.items =
               [i \in 1 .. Len(d.items) |->
                  IF d.items[i].k = k THEN e ELSE d.items[i]]]
       ELSE [d EXCEPT !.items = Append(d.items, e)]

\* del d[k]
DictDel(d, k) ==
  [d EXCEPT !.items = SelectSeq(d.items, LAMBDA e : e.k # k)]

DictKeys(d) == {d.items[i].k : i \in 1 .. Len(d.items)}

\* ------------------------------------------------------------------ sorted
\* Mutant of InsertSorted: the sort runs newest first (reverse=True).
InsertSorted_newest_first(s, e) ==
  LET n == Cardinality({i \in 1 .. Len(s) : s[i].timestamp >= e.timestamp})
  IN SubSeq(s, 1, n) \o <<e>> \o SubSeq(s, n + 1, Len(s))

\* Mutant of InsertSorted: the sort is not stable, entries of one timestamp
\* come out in reverse insertion order.
InsertSorted_ties_reversed(s, e) ==
  LET n == Cardinality({i \in 1 .. Len(s) : s[i].timestamp < e.timestamp})
  IN SubSeq(s, 1, n) \o <<e>> \o SubSeq(s, n + 1, Len(s))

\* sorted(items, key=timestamp): stable, ascending.
InsertSorted(s, e) ==
  LET n == Cardinality({i \in 1 .. Len(s) : s[i].timestamp <= e.timestamp})
  IN SubSeq(s, 1, n) \o <<e>> \o SubSeq(s, n + 1, Len(s))

RECURSIVE sorted(_)
sorted(s) ==
  IF s = <<>> THEN <<>>
  ELSE InsertSorted(sorted(SubSeq(s, 1, Len(s) - 1)), s[Len(s)])

\* ----------------------------------------------------------- _prune_memory
\* while len(self.memory) > self.max_memory_size:
\*     oldest_key = sorted_memory.pop(0)[0]; del self.memory[oldest_key]
\* pop(0) on an empty list raises IndexError.

\* Mutant of prune_loop: "if" for "while", one entry removed at most.
prune_loop_once(mem, sorted_memory, max) ==
  IF DictLen(mem) > max
    THEN IF sorted_memory = <<>>
           THEN [memory |-> mem, raised |-> "IndexError"]
           ELSE [memory |-> DictDel(mem, Head(sorted_memory).k),
                 raised |-> "none"]
    ELSE [memory |-> mem, raised |-> "none"]

\* Mutant of prune_loop: ">=" for ">", one entry too many is removed.
RECURSIVE prune_loop_ge(_, _, _)
prune_loop_ge(mem, sorted_memory, max) ==
  IF DictLen(mem) >= max
    THEN IF sorted_memory = <<>>
           THEN [memory |-> mem, raised |-> "IndexError"]
           ELSE prune_loop_ge(DictDel(mem, Head(sorted_memory).k),
                              Tail(sorted_memory), max)
    ELSE [memory |-> mem, raised |-> "none"]

\* Mutant of prune_loop: pop() for pop(0), the newest entry goes first.
RECURSIVE prune_loop_pop_last(_, _, _)
prune_loop_pop_last(mem, sorted_memory, max) ==
  IF DictLen(mem) > max
    THEN IF sorted_memory = <<>>
           THEN [memory |-> mem, raised |-> "IndexError"]
           ELSE prune_loop_pop_last(
                  DictDel(mem, sorted_memory[Len(sorted_memory)].k),
                  SubSeq(sorted_memory, 1, Len(sorted_memory) - 1), max)
    ELSE [memory |-> mem, raised |-> "none"]

RECURSIVE prune_loop(_, _, _)
prune_loop(mem, sorted_memory, max) ==
  IF DictLen(mem) > max
    THEN IF sorted_memory = <<>>
           THEN [memory |-> mem, raised |-> "IndexError"]
           ELSE prune_loop(DictDel(mem, Head(sorted_memory).k),
                           Tail(sorted_memory), max)
    ELSE [memory |-> mem, raised |-> "none"]

prune_memory(mem, max) == prune_loop(mem, sorted(mem.items), max)

\* ----------------------------------------------------------- add_to_memory
\* Mutant of add_to_memory: a present key keeps its entry (setdefault).
add_to_memory_setdefault(mem, key, value, current_time, max) ==
  LET hashed_key == hash_key(key)
      written == IF DictHas(mem, hashed_key) THEN mem
                 ELSE DictSet(mem, hashed_key, current_time, value)
  IN IF mem.type # "dict"
       THEN [memory |-> mem, raised |-> "TypeError"]
       ELSE IF DictLen(written) > max
              THEN prune_memory(written, max)
              ELSE [memory |-> written, raised |-> "none"]

\* Item assignment with a str index on a list raises TypeError.
add_to_memory(mem, key, value, current_time, max) ==
  LET hashed_key == hash_key(key)
      written == DictSet(mem, hashed_key, current_time, value)
  IN IF mem.type # "dict"
       THEN [memory |-> mem, raised |-> "TypeError"]
       ELSE IF DictLen(written) > max
              THEN prune_memory(written, max)
              ELSE [memory |-> written, raised |-> "none"]

\* --------------------------------------------------------- get_from_memory
\* Mutant of get_from_memory: "<" for "<=", an entry expires at age ttl.
get_from_memory_strict(mem, key, current_time, timeout) ==
  LET hashed_key == hash_key(key)
  IN IF DictHas(mem, hashed_key)
       THEN LET entry == DictGet(mem, hashed_key)
            IN IF current_time - entry.timestamp < timeout
                 THEN [memory |-> mem, result |-> entry.data]
                 ELSE [memory |-> DictDel(mem, hashed_key), result |-> PyNone]
       ELSE [memory |-> mem, result |-> PyNone]

\* Mutant of get_from_memory: a hit takes the entry out (pop).
get_from_memory_pop(mem, key, current_time, timeout) ==
  LET hashed_key == hash_key(key)
  IN IF DictHas(mem, hashed_key)
       THEN LET entry == DictGet(mem, hashed_key)
            IN IF current_time - entry.timestamp <= timeout
                 THEN [memory |-> DictDel(mem, hashed_key),
                       result |-> entry.data]
                 ELSE [memory |-> DictDel(mem, hashed_key), result |-> PyNone]
       ELSE [memory |-> mem, result |-> PyNone]

\* Mutant of get_from_memory: every expired entry is swept out on a get.
get_from_memory_sweep(mem, key, current_time, timeout) ==
  LET hashed_key == hash_key(key)
      live == [mem EXCEPT !.items =
                 SelectSeq(mem.items,
                           LAMBDA e : current_time - e.timestamp <= timeout)]
  IN IF DictHas(live, hashed_key)
       THEN [memory |-> live, result |-> DictGet(live, hashed_key).data]
       ELSE [memory |-> live, result |-> PyNone]

\* Mutant of get_from_memory: a hit stamps the entry with the time of the
\* read.
get_from_memory_touch(mem, key, current_time, timeout) ==
  LET hashed_key == hash_key(key)
  IN IF DictHas(mem, hashed_key)
       THEN LET entry == DictGet(mem, hashed_key)
            IN IF current_time - entry.timestamp <= timeout
                 THEN [memory |-> DictSet(mem, hashed_key, current_time,
                                          entry.data),
                       result |-> entry.data]
                 ELSE [memory |-> DictDel(mem, hashed_key), result |-> PyNone]
       ELSE [memory |-> mem, result |-> PyNone]

get_from_memory(mem, key, current_time, timeout) ==
  LET hashed_key == hash_key(key)
  IN IF DictHas(mem, hashed_key)
       THEN LET entry == DictGet(mem, hashed_key)
            IN IF current_time - entry.timestamp <= timeout
                 THEN [memory |-> mem, result |-> entry.data]
                 ELSE [memory |-> DictDel(mem, hashed_key), result |-> PyNone]
       ELSE [memory |-> mem, result |-> PyNone]

\* ------------------------------------------------------------------- json
\* json.dump writes None as null and both tuples and lists as arrays;
\* json.load reads null as None and an array as a list.
JsonNull == "null"
JsonArray == "[1]"

to_json(v) ==
  CASE v = PyNone -> JsonNull
    [] v = PyTuple -> JsonArray
    [] v = PyList -> JsonArray

from_json(j) ==
  CASE j = JsonNull -> PyNone
    [] j = JsonArray -> PyList

\* The document json.dump(self.memory) writes: an object whose members are
\* the dict's items in order, or an array for a list.
json_dump(mem) ==
  [type |-> IF mem.type = "dict" THEN "object" ELSE "array",
   members |-> [i \in 1 .. Len(mem.items) |->
                  [k |-> mem.items[i].k,
                   timestamp |-> mem.items[i].timestamp,
                   data |-> to_json(mem.items[i].data)]]]

json_load(doc) ==
  [type |-> IF doc.type = "object" THEN "dict" ELSE "list",
   items |-> [i \in 1 .. Len(doc.members) |->
                [k |-> doc.members[i].k,
                 timestamp |-> doc.members[i].timestamp,
                 data |-> from_json(doc.members[i].data)]]]

\* ------------------------------------------------------------------- files
\* The file at the path: missing, text that is not JSON, or a JSON document.
NoDoc == [type |-> "array", members |-> <<>>]
MissingFile == [kind |-> "missing", doc |-> NoDoc]
GarbageFile == [kind |-> "garbage", doc |-> NoDoc]
JsonFile(doc) == [kind |-> "json", doc |-> doc]

\* ------------------------------------------------------------- save_memory
\* Mutant of save_memory: mode "a" for "w"; text appended to a file that
\* already holds some is not one JSON document.
save_memory_append(mem, f, writable) ==
  IF writable
    THEN [memory |-> mem,
          file |-> IF f.kind = "missing" THEN JsonFile(json_dump(mem))
                   ELSE GarbageFile,
          raised |-> "none"]
    ELSE [memory |-> mem, file |-> f, raised |-> "OSError"]

\* Mutant of save_memory: the store is emptied once it has been written out.
save_memory_flush(mem, f, writable) ==
  IF writable
    THEN [memory |-> EmptyDict, file |-> JsonFile(json_dump(mem)),
          raised |-> "none"]
    ELSE [memory |-> mem, file |-> f, raised |-> "OSError"]

\* open(filename, "w") raises OSError when the sink cannot be written.
save_memory(mem, f, writable) ==
  IF writable
    THEN [memory |-> mem, file |-> JsonFile(json_dump(mem)), raised |-> "none"]
    ELSE [memory |-> mem, file |-> f, raised |-> "OSError"]

\* ------------------------------------------------------------- load_memory
\* Mutant of load_memory: "pass" in the except branch, a missing file leaves
\* the store as it was.
load_memory_pass(mem, f) ==
  CASE f.kind = "missing" -> [memory |-> mem, raised |-> "none"]
    [] f.kind = "garbage" -> [memory |-> mem, raised |-> "JSONDecodeError"]
    [] f.kind = "json" -> [memory |-> json_load(f.doc), raised |-> "none"]

\* Mutant of load_memory: the snapshot is merged into the dict
\* (self.memory.update) and what the dict held stays.
load_memory_update(mem, f) ==
  CASE f.kind = "missing" -> [memory |-> EmptyDict, raised |-> "none"]
    [] f.kind = "garbage" -> [memory |-> mem, raised |-> "JSONDecodeError"]
    [] f.kind = "json" ->
         LET new == json_load(f.doc)
         IN [memory |-> [new EXCEPT !.items =
                           SelectSeq(mem.items,
                                     LAMBDA e : ~DictHas(new, e.k))
                             \o new.items],
             raised |-> "none"]

\* Only FileNotFoundError is caught; json.load raises JSONDecodeError before
\* the assignment to self.memory.
load_memory(mem, f) ==
  CASE f.kind = "missing" -> [memory |-> EmptyDict, raised |-> "none"]
    [] f.kind = "garbage" -> [memory |-> mem, raised |-> "JSONDecodeError"]
    [] f.kind = "json" -> [memory |-> json_load(f.doc), raised |-> "none"]

\* ------------------------------------------------------------------- state
VARIABLES
  memory,            \* self.memory
  memory_timeout,    \* self.memory_timeout
  max_memory_size,   \* self.max_memory_size
  now,               \* the reading time.time() gives
  file,              \* the file at the path save_memory and load_memory use
  calls,             \* how many calls the run has made
  last,              \* the call that made this state, and how it ended
  recent,            \* per key, what the calls so far last wrote or loaded
  threads,           \* per caller, where it stands inside its call
  locked             \* whether the callers wrap every call in one lock

vars == <<memory, memory_timeout, max_memory_size, now, file, calls, last,
          recent, threads, locked>>

\* The record of a call: its arguments, what it returned, what it raised,
\* len(self.memory) when it began (before) and, for a put, right after the
\* assignment of line 34 (written).  For a get, value is what the call right
\* before it wrote, when that call was a put of the same key that returned;
\* NoValue otherwise; again is what the call right before it returned, when
\* that call was a get of the same key, and NoValue otherwise.
NoValue == "n/a"
Call(op, key, value, result, raised, before, written, again) ==
  [op |-> op, key |-> key, value |-> value, result |-> result,
   raised |-> raised, before |-> before, written |-> written,
   again |-> again]

\* Snapshots an earlier run left at the path: written at time 0 by a store
\* of any capacity.
OldSnapshot(ks) ==
  JsonFile([type |-> "object",
            members |-> [i \in 1 .. Len(ks) |->
                           [k |-> hash_key(ks[i]), timestamp |-> 0,
                            data |-> JsonNull]]])

InitFiles ==
  {MissingFile, GarbageFile, JsonFile(NoDoc), OldSnapshot(<<"a", "b", "c">>)}

\* The callers of the store; the methods of one instance run on one thread
\* unless the program that owns it starts more.
Callers == {1, 2}

\* A caller between two calls: raised is what its last call raised, returned
\* holds len(self.memory) as its last call, a put, handed control back.
Idle ==
  [pc |-> "idle", hashed_key |-> "", current_time |-> 0, value |-> PyNone,
   sorted_memory |-> <<>>, oldest_key |-> "", raised |-> "none",
   returned |-> {}]

\* No put and no load has happened: nothing written for any key.
NoRecent == [key \in Keys |-> NoValue]

Init ==
  /\ recent = NoRecent
  /\ threads = [t \in Callers |-> Idle]
  /\ locked = TRUE
  /\ memory = EmptyDict
  /\ memory_timeout \in Ttls
  /\ max_memory_size \in Capacities
  /\ now = 0
  /\ file \in InitFiles
  /\ calls = 0
  /\ last = Call("init", "a", PyNone, PyNone, "none", 0, 0, NoValue)

Put(key, value) ==
  LET out == add_to_memory(memory, key, value, now, max_memory_size)
  IN /\ calls < MaxCalls
     /\ calls' = calls + 1
     /\ memory' = out.memory
     /\ last' = Call("put", key, value, PyNone, out.raised, DictLen(memory),
                     IF memory.type = "dict"
                       THEN Cardinality(DictKeys(memory) \cup {hash_key(key)})
                       ELSE 0,
                     NoValue)
     /\ UNCHANGED <<memory_timeout, max_memory_size, now, file>>

Get(key) ==
  LET out == get_from_memory(memory, key, now, memory_timeout)
  IN /\ calls < MaxCalls
     /\ calls' = calls + 1
     /\ memory' = out.memory
     /\ last' = Call("get", key,
                     IF last.op = "put" /\ last.key = key /\ last.raised = "none"
                       THEN last.value ELSE NoValue,
                     out.result, "none", DictLen(memory), 0,
                     IF last.op = "get" /\ last.key = key
                       THEN last.result ELSE NoValue)
     /\ UNCHANGED <<memory_timeout, max_memory_size, now, file>>

Save(writable) ==
  LET out == save_memory(memory, file, writable)
  IN /\ calls < MaxCalls
     /\ calls' = calls + 1
     /\ memory' = out.memory
     /\ file' = out.file
     /\ last' = Call("save", "a", PyNone, PyNone, out.raised, DictLen(memory), 0,
                     NoValue)
     /\ UNCHANGED <<memory_timeout, max_memory_size, now>>

Load ==
  LET out == load_memory(memory, file)
  IN /\ calls < MaxCalls
     /\ calls' = calls + 1
     /\ memory' = out.memory
     /\ last' = Call("load", "a", PyNone, PyNone, out.raised, DictLen(memory), 0,
                     NoValue)
     /\ UNCHANGED <<memory_timeout, max_memory_size, now, file>>

\* time.time() moves on between calls.
Tick ==
  /\ now < MaxTime
  /\ now' = now + 1
  /\ last' = Call("tick", "a", PyNone, PyNone, "none", 0, 0, NoValue)
  /\ UNCHANGED <<memory, memory_timeout, max_memory_size, file, calls>>

\* One caller, one call at a time.
Next ==
  \/ \E key \in Keys, value \in Values :
       Put(key, value) /\ UNCHANGED <<recent, threads, locked>>
  \/ \E key \in Keys : Get(key) /\ UNCHANGED <<recent, threads, locked>>
  \/ \E writable \in BOOLEAN :
       Save(writable) /\ UNCHANGED <<recent, threads, locked>>
  \/ Load /\ UNCHANGED <<recent, threads, locked>>
  \/ Tick /\ UNCHANGED <<recent, threads, locked>>

Spec == Init /\ [][Next]_vars

\* ------------------------------------------- the same calls, with history
\* put(key, value) was called: value is the latest written for key.
RecentAfterPut(key, value) == [recent EXCEPT ![key] = value]

\* load_memory returned: what it installed is the latest for every key.
RecentAfterLoad(mem) ==
  [key \in Keys |->
     IF DictHas(mem, hash_key(key))
       THEN DictGet(mem, hash_key(key)).data
       ELSE NoValue]

HistPut(key, value) ==
  /\ Put(key, value)
  /\ recent' = RecentAfterPut(key, value)
  /\ UNCHANGED <<threads, locked>>

HistGet(key) == Get(key) /\ UNCHANGED <<recent, threads, locked>>

HistSave(writable) == Save(writable) /\ UNCHANGED <<recent, threads, locked>>

HistLoad ==
  /\ Load
  /\ recent' = IF load_memory(memory, file).raised = "none"
                 THEN RecentAfterLoad(load_memory(memory, file).memory)
                 ELSE recent
  /\ UNCHANGED <<threads, locked>>

HistTick == Tick /\ UNCHANGED <<recent, threads, locked>>

NextHist ==
  \/ \E key \in Keys, value \in Values : HistPut(key, value)
  \/ \E key \in Keys : HistGet(key)
  \/ \E writable \in BOOLEAN : HistSave(writable)
  \/ HistLoad
  \/ HistTick

SpecHist == Init /\ [][NextHist]_vars

\* ------------------------------------------------------------------ claims
\* The entries of a dict, position aside: digest -> (timestamp, data).
Mapping(d) ==
  [k \in DictKeys(d) |->
     [timestamp |-> DictGet(d, k).timestamp, data |-> DictGet(d, k).data]]

\* What get_from_memory returns for a key that is not there.
NotFound == get_from_memory(EmptyDict, "a", 0, 0).result

\* No entry of the store is newer than the clock reading.
NoneNewer == \A i \in 1 .. Len(memory.items) : memory.items[i].timestamp <= now

\* C1 as stated: whatever the ttl and the capacity, a get(key) right after a
\* put(key, value) that returned, at the same clock reading, returns value.
C1_GetAfterPut_AnyConfig ==
  [][(/\ last.op = "put" /\ last.raised = "none"
      /\ last'.op = "get" /\ last'.key = last.key)
     => last'.result = last.value]_vars

\* C1 amended: with capacity >= 1 and ttl >= 0, when the store held at most
\* capacity entries before the put and none of its entries is newer than the
\* put's clock reading, a get(key) right after a put(key, value) that
\* returned, at the same clock reading, returns value.
C1_GetAfterPut ==
  [][(/\ last.op = "put" /\ last.raised = "none"
      /\ last'.op = "get" /\ last'.key = last.key
      /\ max_memory_size >= 1 /\ memory_timeout >= 0
      /\ last.before <= max_memory_size
      /\ NoneNewer)
     => last'.result = last.value]_vars

\* A get returned the tuple that a put wrote right before it; the store is
\* full and holds an older entry beside it.
C1_Witness ==
  /\ last.op = "get" /\ last.value = PyTuple /\ last.result = PyTuple
  /\ max_memory_size >= 1 /\ memory_timeout >= 0
  /\ last.before = max_memory_size
  /\ \E i \in 1 .. Len(memory.items) : memory.items[i].timestamp < now

\* C2: when a put has returned, the store holds at most capacity entries.
C2_SizeBoundAfterPut ==
  (last.op = "put" /\ last.raised = "none")
    => DictLen(memory) <= max_memory_size

\* A put after the load of an oversized snapshot had to evict two or more
\* entries, and left the store exactly full.
C2_Witness ==
  /\ last.op = "put" /\ last.raised = "none"
  /\ max_memory_size >= 1
  /\ last.written >= max_memory_size + 2
  /\ DictLen(memory) = max_memory_size

\* The put of the step, and the dict right after its assignment of line 34.
PutStep == last'.op = "put" /\ memory.type = "dict"
Written == DictSet(memory, hash_key(last'.key), now, last'.value)

\* When the put evicts, every entry it removes is at most as new as every
\* entry it leaves.
RemovedNoNewerThanKept ==
  (last'.written > DictLen(memory')) =>
    LET kept == {memory'.items[j] : j \in 1 .. Len(memory'.items)}
        removed == {e \in {Written.items[i] : i \in 1 .. Len(Written.items)} :
                      e.k \notin {f.k : f \in kept}}
    IN \A e \in removed : \A f \in kept : e.timestamp <= f.timestamp

\* Capacity 2, the store holds x and y, x written before y and y before
\* now, and the put writes a third key.
ThreePuts(x, y) ==
  /\ max_memory_size = 2
  /\ DictKeys(memory) = {hash_key(x), hash_key(y)}
  /\ x # y /\ last'.key \notin {x, y}
  /\ DictGet(memory, hash_key(x)).timestamp
       < DictGet(memory, hash_key(y)).timestamp
  /\ DictGet(memory, hash_key(y)).timestamp < now

\* What a get of k right after the put returns.
GetAfter(k) == get_from_memory(memory', k, now, memory_timeout).result

\* C3 as stated: a put removes entries oldest first; with capacity 2,
\* put(x), put(y), put(z) at strictly increasing times leaves x absent and
\* get(y) and get(z) return their values.
C3_EvictsOldestFirst_AnyTtl ==
  [][PutStep =>
       /\ RemovedNoNewerThanKept
       /\ (max_memory_size = 2 /\ DictLen(memory) = 2) =>
          \A x, y \in Keys :
            ThreePuts(x, y)
              => /\ GetAfter(x) = PyNone /\ ~DictHas(memory', hash_key(x))
                 /\ GetAfter(y) = DictGet(memory, hash_key(y)).data
                 /\ GetAfter(last'.key) = last'.value]_vars

\* C3 amended: a put removes entries oldest first; with capacity 2, put(x),
\* put(y), put(z) at strictly increasing times leaves x absent and y and z
\* in the store, and get returns the value of each whose age is within ttl.
C3_EvictsOldestFirst ==
  [][PutStep =>
       /\ RemovedNoNewerThanKept
       /\ (max_memory_size = 2 /\ DictLen(memory) = 2) =>
          \A x, y \in Keys :
            ThreePuts(x, y)
              => /\ GetAfter(x) = PyNone /\ ~DictHas(memory', hash_key(x))
                 /\ DictKeys(memory') = {hash_key(y), hash_key(last'.key)}
                 /\ (now - DictGet(memory, hash_key(y)).timestamp
                       <= memory_timeout)
                      => GetAfter(y) = DictGet(memory, hash_key(y)).data
                 /\ (0 <= memory_timeout)
                      => GetAfter(last'.key) = last'.value]_vars

\* With capacity 2, a put of c found two entries, wrote a third and evicted
\* the oldest: b and c are left, b older than c, both within ttl.
C3_Witness ==
  /\ last.op = "put" /\ last.raised = "none" /\ last.key = "c"
  /\ max_memory_size = 2 /\ last.before = 2 /\ last.written = 3
  /\ DictKeys(memory) = {hash_key("b"), hash_key("c")}
  /\ DictGet(memory, hash_key("b")).timestamp < now
  /\ DictGet(memory, hash_key("c")).timestamp = now
  /\ now - DictGet(memory, hash_key("b")).timestamp <= memory_timeout

\* C4: a get of a present key returns the stored value and keeps the entry
\* when now - timestamp <= ttl (age equal to ttl included), returns None and
\* removes the entry when the age exceeds ttl; a get of an absent key
\* returns None and changes nothing.
C4_GetSemantics ==
  [][last'.op = "get" =>
       LET hashed_key == hash_key(last'.key)
       IN IF DictHas(memory, hashed_key)
            THEN LET entry == DictGet(memory, hashed_key)
                     age == now - entry.timestamp
                 IN /\ (age <= memory_timeout)
                         => last'.result = entry.data /\ memory' = memory
                    /\ (age > memory_timeout)
                         => /\ last'.result = PyNone
                            /\ ~DictHas(memory', hashed_key)
            ELSE last'.result = PyNone /\ memory' = memory]_vars

\* A get found its key expired: it returned None and the store is one
\* entry shorter, the key gone.
C4_Witness ==
  /\ last.op = "get" /\ last.result = PyNone
  /\ memory_timeout >= 0
  /\ DictLen(memory) = last.before - 1
  /\ ~DictHas(memory, hash_key(last.key))

\* C5: what get returns for a live entry that holds None differs from what
\* it returns for a key that is absent or expired.
C5_MissDistinctFromNone ==
  (/\ last.op = "get"
   /\ DictHas(memory, hash_key(last.key))
   /\ DictGet(memory, hash_key(last.key)).data = PyNone
   /\ now - DictGet(memory, hash_key(last.key)).timestamp <= memory_timeout)
    => last.result # NotFound

\* What a fresh store of the same configuration holds after load_memory of
\* the file; the results of its gets match the store's at the times in ts.
Reloaded == load_memory(EmptyDict, file)
SameGets(ts) ==
  \A key \in Keys, t \in ts :
    get_from_memory(Reloaded.memory, key, t, memory_timeout).result
      = get_from_memory(memory, key, t, memory_timeout).result
RoundTrips ==
  /\ Reloaded.raised = "none"
  /\ Reloaded.memory.type = memory.type
  /\ Mapping(Reloaded.memory) = Mapping(memory)
  /\ SameGets(now .. MaxTime)

\* The values JSON has a type of its own for: None and the list.
JsonNative == \A i \in 1 .. Len(memory.items) :
                memory.items[i].data \in {PyNone, PyList}

\* C6 as stated: in any reachable state, after a save that succeeded, a load
\* of the file into a fresh store gives the same mapping, digests,
\* timestamps and values, expired entries too, and the same get results.
C6_RoundTrip_AnyValue ==
  (last.op = "save" /\ last.raised = "none") => RoundTrips

\* C6 amended: the same, for stores whose values are all of types JSON
\* keeps (a tuple comes back as a list).
C6_RoundTrip ==
  (last.op = "save" /\ last.raised = "none" /\ JsonNative) => RoundTrips

\* A save succeeded on a store that holds an expired entry and a live one.
C6_Witness ==
  /\ last.op = "save" /\ last.raised = "none" /\ JsonNative
  /\ \E i, j \in 1 .. Len(memory.items) :
       /\ now - memory.items[i].timestamp > memory_timeout
       /\ now - memory.items[j].timestamp <= memory_timeout

\* A file that exists and is not a snapshot: not JSON at all, or JSON that
\* is not an object of entries.
Malformed(f) ==
  \/ f.kind = "garbage"
  \/ f.kind = "json" /\ f.doc.type # "object"

\* C7: load_memory of a malformed file raises and leaves self.memory as it
\* was.
C7_MalformedLoadKeepsState ==
  [][(last'.op = "load" /\ Malformed(file))
     => last'.raised # "none" /\ memory' = memory]_vars

\* C7, the part the code keeps: load_memory of a file that is not JSON raises
\* and leaves self.memory as it was.
C7_NotJsonLoadKeepsState ==
  [][(last'.op = "load" /\ file.kind = "garbage")
     => last'.raised # "none" /\ memory' = memory]_vars

\* C8: load_memory of a path that does not exist returns normally and
\* leaves the store empty, whatever it held.
C8_MissingLoadEmpties ==
  [][(last'.op = "load" /\ file.kind = "missing")
     => last'.raised = "none" /\ memory' = EmptyDict]_vars

\* A load found no file and emptied a store that held entries.
C8_Witness ==
  /\ last.op = "load" /\ file.kind = "missing" /\ last.raised = "none"
  /\ last.before >= 1 /\ memory = EmptyDict

\* C9: save_memory leaves self.memory as it was, whether it writes the file
\* or raises OSError because the sink cannot be written; when it raises the
\* file is as it was too.
C9_SaveKeepsMemory ==
  [][last'.op = "save" =>
       /\ memory' = memory
       /\ \/ last'.raised = "none" /\ file' = JsonFile(json_dump(memory))
          \/ last'.raised = "OSError" /\ file' = file]_vars

\* A save failed with OSError on a store that holds entries.
C9_Witness ==
  /\ last.op = "save" /\ last.raised = "OSError"
  /\ DictLen(memory) >= 1

\* C10: a put returns normally, in every configuration and every state.
C10_PutNeverRaises ==
  last.op = "put" => last.raised = "none"

\* C11: a get that finds its entry within ttl returns the entry's value and
\* leaves the number of entries as it was, and a second get of the key
\* right after it, the clock not past ttl, returns the same value and
\* leaves the number as it was again.
C11_GetTwice ==
  [][(/\ last'.op = "get"
      /\ DictHas(memory, hash_key(last'.key))
      /\ now - DictGet(memory, hash_key(last'.key)).timestamp <= memory_timeout)
     => /\ last'.result = DictGet(memory, hash_key(last'.key)).data
        /\ DictLen(memory') = DictLen(memory)
        /\ \A t \in now .. MaxTime :
             (t - DictGet(memory, hash_key(last'.key)).timestamp
                <= memory_timeout)
               => LET second == get_from_memory(memory', last'.key, t,
                                                memory_timeout)
                  IN /\ second.result = last'.result
                     /\ DictLen(second.memory) = DictLen(memory)]_vars

\* Two gets of one key in a row both returned the tuple stored under it.
C11_Witness ==
  /\ last.op = "get" /\ last.again = PyTuple /\ last.result = PyTuple
  /\ DictHas(memory, hash_key(last.key))
  /\ DictLen(memory) = last.before

\* The put of the step writes a key the dict holds.
Overwrite == PutStep /\ DictHas(memory, hash_key(last'.key))

\* The store holds one entry for the put's key, stamped now, with the put's
\* value, and no more entries than before.
OneSlotRewritten ==
  LET hashed_key == hash_key(last'.key)
  IN /\ Cardinality({i \in 1 .. Len(memory'.items) :
                       memory'.items[i].k = hashed_key}) = 1
     /\ DictGet(memory', hashed_key).timestamp = now
     /\ DictGet(memory', hashed_key).data = last'.value
     /\ DictLen(memory') <= DictLen(memory)

\* C12 as stated: a put on a key that is present leaves one entry for the
\* key, with the put's time and value, and does not add an entry.
C12_Overwrite_AnySize ==
  [][Overwrite => OneSlotRewritten]_vars

\* C12 amended: the same, when the store holds at most capacity entries
\* before the put.
C12_Overwrite ==
  [][(Overwrite /\ DictLen(memory) <= max_memory_size)
     => OneSlotRewritten]_vars

\* A put rewrote a key that was there: the count is what it was, the
\* entry carries the tuple and a timestamp later than 0.
C12_Witness ==
  /\ last.op = "put" /\ last.raised = "none" /\ last.value = PyTuple
  /\ last.before >= 1 /\ last.written = last.before
  /\ last.before <= max_memory_size
  /\ DictLen(memory) = last.before
  /\ DictHas(memory, hash_key(last.key))
  /\ DictGet(memory, hash_key(last.key)).timestamp = now /\ now >= 1

\* C13: a put that returns leaves exactly capacity entries when the count
\* after its assignment exceeded capacity, and removes nothing otherwise;
\* every entry left, the written one aside, is as it was.
C13_EvictsOnlyAsNeeded ==
  [][(PutStep /\ last'.raised = "none") =>
       /\ (last'.written > max_memory_size)
            => DictLen(memory') = max_memory_size
       /\ (last'.written <= max_memory_size)
            => /\ DictLen(memory') = last'.written
               /\ DictKeys(memory) \subseteq DictKeys(memory')
       /\ \A k \in DictKeys(memory') \ {hash_key(last'.key)} :
            DictHas(memory, k) /\ DictGet(memory', k) = DictGet(memory, k)]_vars

\* A put evicted down to the capacity and left an older entry beside the
\* one it wrote.
C13_Witness ==
  /\ last.op = "put" /\ last.raised = "none"
  /\ max_memory_size >= 2
  /\ last.written > max_memory_size
  /\ DictLen(memory) = max_memory_size
  /\ DictHas(memory, hash_key(last.key))
  /\ \E i \in 1 .. Len(memory.items) : memory.items[i].timestamp < now

\* C14: an entry leaves the store or changes only in a get of its own key,
\* a put of its own key, a put whose count exceeds capacity, or a load; a
\* get, an overwrite or an insert of another key, a save and the passing of
\* time leave it, expired or not.
C14_LazyExpiry ==
  [][\A i \in 1 .. Len(memory.items) :
       LET e == memory.items[i]
       IN (~DictHas(memory', e.k) \/ DictGet(memory', e.k) # e)
            => \/ last'.op = "get" /\ hash_key(last'.key) = e.k
               \/ last'.op = "put" /\ hash_key(last'.key) = e.k
               \/ last'.op = "put" /\ last'.written > max_memory_size
               \/ last'.op = "load"]_vars

\* A get of one key left an entry of another key that is past its ttl.
C14_Witness ==
  /\ last.op = "get" /\ memory_timeout >= 0
  /\ \E i \in 1 .. Len(memory.items) :
       /\ memory.items[i].k # hash_key(last.key)
       /\ now - memory.items[i].timestamp > memory_timeout

\* Where key k sits in dict d.
Pos(d, k) == CHOOSE i \in 1 .. Len(d.items) : d.items[i].k = k

\* C15: among entries of one timestamp a put evicts the one inserted into
\* the dict earlier before the one inserted later, and a key that is
\* overwritten keeps its place in the dict.
C15_TiesByInsertionOrder ==
  [][PutStep =>
       /\ (last'.written > DictLen(memory')) =>
            \A i, j \in 1 .. Len(Written.items) :
              (/\ ~DictHas(memory', Written.items[i].k)
               /\ DictHas(memory', Written.items[j].k)
               /\ Written.items[i].timestamp = Written.items[j].timestamp)
                => i < j
       /\ (Overwrite /\ last'.written <= max_memory_size)
            => Pos(memory', hash_key(last'.key))
                 = Pos(memory, hash_key(last'.key))]_vars

\* At time 0 a put evicted an entry and kept others, all written at time 0.
C15_Witness ==
  /\ last.op = "put" /\ last.raised = "none" /\ now = 0
  /\ last.written > DictLen(memory) /\ DictLen(memory) >= 1

\* An entry is past its ttl at the clock reading.
Expired(e) == now - e.timestamp > memory_timeout

\* C18: the clock never running backwards, a put removes no entry that is
\* within ttl while it leaves one that is past ttl: every entry it removes
\* is at least as old as every expired entry it leaves.
C18_ExpiredEvictedFirst ==
  [][(PutStep /\ last'.written > DictLen(memory')) =>
       \A i \in 1 .. Len(Written.items) :
         \A j \in 1 .. Len(memory'.items) :
           (~DictHas(memory', Written.items[i].k) /\ Expired(memory'.items[j]))
             => /\ Written.items[i].timestamp <= memory'.items[j].timestamp
                /\ Expired(Written.items[i])]_vars

\* A put evicted an entry and left one that is past its ttl beside the one
\* it wrote.
C18_Witness ==
  /\ last.op = "put" /\ last.raised = "none" /\ memory_timeout >= 0
  /\ last.written > DictLen(memory)
  /\ DictHas(memory, hash_key(last.key))
  /\ \E i \in 1 .. Len(memory.items) : Expired(memory.items[i])

\* C19: a get that finds its entry within ttl leaves self.memory as it was,
\* timestamps and order included, so any put after it evicts what it would
\* have evicted without the get.
C19_GetNeverRefreshes ==
  [][(/\ last'.op = "get"
      /\ DictHas(memory, hash_key(last'.key))
      /\ now - DictGet(memory, hash_key(last'.key)).timestamp <= memory_timeout)
     => /\ memory' = memory
        /\ \A key \in Keys, value \in Values, t \in now .. MaxTime :
             add_to_memory(memory', key, value, t, max_memory_size)
               = add_to_memory(memory, key, value, t, max_memory_size)]_vars

\* A get returned the tuple of an entry written at an earlier clock
\* reading, and the entry still carries that reading.
C19_Witness ==
  /\ last.op = "get" /\ last.result = PyTuple
  /\ DictHas(memory, hash_key(last.key))
  /\ DictGet(memory, hash_key(last.key)).timestamp < now

\* C20: a load that succeeds makes self.memory what the file holds, nothing
\* else: no entry is kept from before, none is evicted for capacity or
\* dropped for age, so the store may hold more than capacity entries and
\* expired ones; a put after it that returns brings the count back within
\* capacity.
C20_LoadReplacesVerbatim ==
  [][(last'.op = "load" /\ last'.raised = "none" /\ file.kind = "json") =>
       /\ memory' = json_load(file.doc)
       /\ DictLen(memory') = Len(file.doc.members)
       /\ \A i \in 1 .. Len(memory'.items) :
            \E j \in 1 .. Len(file.doc.members) :
              /\ file.doc.members[j].k = memory'.items[i].k
              /\ file.doc.members[j].timestamp = memory'.items[i].timestamp
       /\ \A key \in Keys, value \in Values :
            LET out == add_to_memory(memory', key, value, now, max_memory_size)
            IN out.raised = "none"
                 => DictLen(out.memory) <= max_memory_size]_vars

\* A load left more entries than capacity in the store, one of them past
\* its ttl, where the store held something else before.
C20_Witness ==
  /\ last.op = "load" /\ last.raised = "none" /\ file.kind = "json"
  /\ max_memory_size >= 0 /\ memory_timeout >= 0
  /\ DictLen(memory) > max_memory_size
  /\ last.before >= 1 /\ last.before # DictLen(memory)
  /\ \E i \in 1 .. Len(memory.items) : Expired(memory.items[i])

\* ------------------------------------- two callers, statement by statement
\* A caller may start a call: always when the callers use no lock; with the
\* lock, only while no other caller is inside a call. The callers being
\* alike, the one that makes the first call is caller 1.
MayEnter(t) ==
  /\ locked => \A u \in Callers \ {t} : threads[u].pc = "idle"
  /\ calls = 0 => t = 1

\* The caller's locals after a statement.
At(t, pc, change) ==
  [threads EXCEPT ![t] = [k \in DOMAIN Idle |->
                            IF k = "pc" THEN pc
                            ELSE IF k \in DOMAIN change THEN change[k]
                            ELSE threads[t][k]]]

\* The call ended: the locals are gone, what it raised stays.
Ended(t, raised, returned) ==
  [threads EXCEPT ![t] = [Idle EXCEPT !.raised = raised,
                                      !.returned = returned]]

\* Mutant of over_capacity: the count may pass the capacity by one.
over_capacity_plus_one(mem, max) == DictLen(mem) > max + 1

\* len(self.memory) > self.max_memory_size
over_capacity(mem, max) == DictLen(mem) > max

\* add_to_memory is called: current_time = time.time(); hashed_key =
\* self._hash_key(key). The clock is read here and in ConcGet only, so now
\* is its last reading and time.time() returns that or a later one. No
\* statement of put or get branches on the data, so the callers here write
\* one value.
ConcPut(t, key, value) ==
  /\ threads[t].pc = "idle" /\ MayEnter(t)
  /\ calls < MaxCalls
  /\ calls' = calls + 1
  /\ now' \in now .. MaxTime
  /\ threads' = [threads EXCEPT ![t] =
                   [Idle EXCEPT !.pc = "assign", !.hashed_key = hash_key(key),
                                !.current_time = now', !.value = value]]
  /\ UNCHANGED <<memory, memory_timeout, max_memory_size, file, last, recent,
                 locked>>

\* add_to_memory: self.memory[hashed_key] = {"timestamp": current_time,
\* "data": value}
ConcAssign(t) ==
  /\ threads[t].pc = "assign"
  /\ memory' = DictSet(memory, threads[t].hashed_key, threads[t].current_time,
                       threads[t].value)
  /\ threads' = At(t, "if", [hashed_key |-> "", current_time |-> 0,
                             value |-> PyNone])
  /\ UNCHANGED <<memory_timeout, max_memory_size, now, file, calls, last,
                 recent, locked>>

\* add_to_memory: if len(self.memory) > self.max_memory_size
ConcIf(t) ==
  /\ threads[t].pc = "if"
  /\ threads' = At(t, IF over_capacity(memory, max_memory_size)
                        THEN "sorted" ELSE "return", <<>>)
  /\ UNCHANGED <<memory, memory_timeout, max_memory_size, now, file, calls,
                 last, recent, locked>>

\* _prune_memory: sorted_memory = sorted(self.memory.items(), ...)
ConcSorted(t) ==
  /\ threads[t].pc = "sorted"
  /\ threads' = At(t, "while",
                   [sorted_memory |->
                      [i \in 1 .. DictLen(memory) |->
                         sorted(memory.items)[i].k]])
  /\ UNCHANGED <<memory, memory_timeout, max_memory_size, now, file, calls,
                 last, recent, locked>>

\* _prune_memory: while len(self.memory) > self.max_memory_size:
\* oldest_key = sorted_memory.pop(0)[0]. The pop touches the call's own list
\* only, so it is one step with the test; IndexError when the list is empty.
ConcWhile(t) ==
  /\ threads[t].pc = "while"
  /\ threads' = IF over_capacity(memory, max_memory_size)
                  THEN IF threads[t].sorted_memory = <<>>
                         THEN Ended(t, "IndexError", {})
                         ELSE At(t, "del",
                                 [oldest_key |-> Head(threads[t].sorted_memory),
                                  sorted_memory |->
                                    Tail(threads[t].sorted_memory)])
                  ELSE At(t, "return", [sorted_memory |-> <<>>])
  /\ UNCHANGED <<memory, memory_timeout, max_memory_size, now, file, calls,
                 last, recent, locked>>

\* _prune_memory: del self.memory[oldest_key]; KeyError when the key is no
\* longer there.
ConcDel(t) ==
  /\ threads[t].pc = "del"
  /\ IF DictHas(memory, threads[t].oldest_key)
       THEN /\ memory' = DictDel(memory, threads[t].oldest_key)
            /\ threads' = At(t, "while", [oldest_key |-> ""])
       ELSE /\ memory' = memory
            /\ threads' = Ended(t, "KeyError", {})
  /\ UNCHANGED <<memory_timeout, max_memory_size, now, file, calls, last,
                 recent, locked>>

\* add_to_memory hands control back to its caller.
ConcReturn(t) ==
  /\ threads[t].pc = "return"
  /\ threads' = Ended(t, "none", {DictLen(memory)})
  /\ UNCHANGED <<memory, memory_timeout, max_memory_size, now, file, calls,
                 last, recent, locked>>

\* get_from_memory is called: hashed_key = self._hash_key(key);
\* current_time = time.time()
ConcGet(t, key) ==
  /\ threads[t].pc = "idle" /\ MayEnter(t)
  /\ calls < MaxCalls
  /\ calls' = calls + 1
  /\ now' \in now .. MaxTime
  /\ threads' = [threads EXCEPT ![t] =
                   [Idle EXCEPT !.pc = "in", !.hashed_key = hash_key(key),
                                !.current_time = now']]
  /\ UNCHANGED <<memory, memory_timeout, max_memory_size, file, last, recent,
                 locked>>

\* get_from_memory: if hashed_key in self.memory, else return None
ConcIn(t) ==
  /\ threads[t].pc = "in"
  /\ threads' = IF DictHas(memory, threads[t].hashed_key)
                  THEN At(t, "read", <<>>)
                  ELSE Ended(t, "none", {})
  /\ UNCHANGED <<memory, memory_timeout, max_memory_size, now, file, calls,
                 last, recent, locked>>

\* get_from_memory: entry = self.memory[hashed_key], KeyError when the key
\* is no longer there; then, on the call's own locals,
\* if current_time - entry["timestamp"] <= self.memory_timeout:
\* return entry["data"]
ConcRead(t) ==
  /\ threads[t].pc = "read"
  /\ threads' =
       IF DictHas(memory, threads[t].hashed_key)
         THEN IF threads[t].current_time
                   - DictGet(memory, threads[t].hashed_key).timestamp
                   <= memory_timeout
                THEN Ended(t, "none", {})
                ELSE At(t, "expire", <<>>)
         ELSE Ended(t, "KeyError", {})
  /\ UNCHANGED <<memory, memory_timeout, max_memory_size, now, file, calls,
                 last, recent, locked>>

\* get_from_memory: del self.memory[hashed_key]; return None. KeyError when
\* the key is no longer there.
ConcExpire(t) ==
  /\ threads[t].pc = "expire"
  /\ IF DictHas(memory, threads[t].hashed_key)
       THEN /\ memory' = DictDel(memory, threads[t].hashed_key)
            /\ threads' = Ended(t, "none", {})
       ELSE /\ memory' = memory
            /\ threads' = Ended(t, "KeyError", {})
  /\ UNCHANGED <<memory_timeout, max_memory_size, now, file, calls, last,
                 recent, locked>>

\* A fresh store shared by the callers, who either all take the lock around
\* every call or none does. Capacity and ttl are not negative: with a
\* negative capacity every put raises and with a negative ttl every get
\* misses, one caller or two.
InitConc ==
  /\ memory = EmptyDict
  /\ memory_timeout \in Ttls \ {-1}
  /\ max_memory_size \in Capacities \ {-1}
  /\ now = 0
  /\ file = MissingFile
  /\ calls = 0
  /\ last = Call("init", "a", PyNone, PyNone, "none", 0, 0, NoValue)
  /\ recent = NoRecent
  /\ threads = [t \in Callers |-> Idle]
  /\ locked \in BOOLEAN

NextConc ==
  \/ \E t \in Callers, key \in Keys, value \in {PyNone} :
       ConcPut(t, key, value)
  \/ \E t \in Callers : ConcAssign(t)
  \/ \E t \in Callers : ConcIf(t)
  \/ \E t \in Callers : ConcSorted(t)
  \/ \E t \in Callers : ConcWhile(t)
  \/ \E t \in Callers : ConcDel(t)
  \/ \E t \in Callers : ConcReturn(t)
  \/ \E t \in Callers, key \in Keys : ConcGet(t, key)
  \/ \E t \in Callers : ConcIn(t)
  \/ \E t \in Callers : ConcRead(t)
  \/ \E t \in Callers : ConcExpire(t)

SpecConc == InitConc /\ [][NextConc]_vars

\* A call found the entry it was about to read or delete already removed by
\* another call.
ActedOnRemoved(t) == threads[t].raised = "KeyError"

\* A put handed control back with more entries in the store than capacity.
ReturnedOverCapacity(t) ==
  \E n \in threads[t].returned : n > max_memory_size

\* C16: with every call made under one lock, no call acts on an entry that
\* another call removed and no put returns with the store over capacity;
\* without the lock the statements of put and get interleave and such a
\* state is reachable.
C16_LockSerialises ==
  locked => \A t \in Callers : ~ActedOnRemoved(t) /\ ~ReturnedOverCapacity(t)

\* Without the lock, a call of one caller raised KeyError on an entry the
\* other caller's call had removed.
C16_Witness ==
  /\ ~locked /\ max_memory_size >= 0
  /\ \E t \in Callers : ActedOnRemoved(t)

\* Without the lock, a put returned while the store held more entries than
\* capacity.
C16_OverCapacityUnlocked ==
  /\ ~locked /\ max_memory_size >= 0
  /\ \E t \in Callers : ReturnedOverCapacity(t)

\* C17: whatever the calls before it, a get that finds its key within ttl
\* returns what the most recent put of that key wrote since the last load,
\* or what the last load installed for the key when no put followed; never
\* a value a later put replaced.
C17_GetReturnsMostRecent ==
  [][(/\ last'.op = "get"
      /\ DictHas(memory, hash_key(last'.key))
      /\ now - DictGet(memory, hash_key(last'.key)).timestamp <= memory_timeout)
     => /\ recent[last'.key] # NoValue
        /\ last'.result = recent[last'.key]]_vars

\* A get found its key and returned None, the value of the latest put of
\* the key, while the file still holds the tuple an earlier put of the key
\* wrote and a save stored.
C17_Witness ==
  /\ last.op = "get" /\ last.result = PyNone /\ recent[last.key] = PyNone
  /\ DictHas(memory, hash_key(last.key))
  /\ file.kind = "json" /\ file.doc.type = "object"
  /\ \E i \in 1 .. Len(file.doc.members) :
       /\ file.doc.members[i].k = hash_key(last.key)
       /\ file.doc.members[i].data = JsonArray

====
